---------------------------- MODULE Spec2Model ----------------------------
(***************************************************************************)
(* Kids Shop ERP (src/app.py): users, settings, catalog, session carts,    *)
(* orders and their status progression, and the loyalty pricing function.  *)
(*                                                                         *)
(* Money and discounts are kept as integers: a discount multiplier m is    *)
(* the integer 100*m (0.95 is 95, 1.0 is 100), a list price is in whole    *)
(* currency units, and a price after discount (list price * multiplier) is *)
(* therefore in hundredths of a unit.                                      *)
(*                                                                         *)
(* Every Streamlit session runs its script in a thread of its own, and a   *)
(* handler that first queries the database and later commits is modelled   *)
(* by one step per database round trip, so that runs of different sessions *)
(* interleave as the threads do.                                           *)
(***************************************************************************)
EXTENDS Integers, Sequences, FiniteSets, TLC

\* ------------------------------------------------------------------ bounds
MaxOrders == 2
MaxCart == 2
MaxProducts == 1
MaxCount == 101
MaxLines == 10

\* ------------------------------------------------- names of the model's sets
Sessions == {"s1", "s2"}
AdminName == "admin"
Shoppers == {"u1"}
\* the names typed into the login and new-user forms; "u2" never gets a user row
Usernames == {AdminName} \cup Shoppers \cup {"u2"}

\* Order.status values: '待发货', '已发货', '交易成功'
Pending == "pending"
Shipped == "shipped"
Delivered == "delivered"
Statuses == {Pending, Shipped, Delivered}

\* tier labels returned by calculate_user_discount
Diamond == "Diamond"
Gold == "Gold"
Silver == "Silver"
Normal == "Normal"

VARIABLES
    users,      \* table users: username -> [role, total_items_bought]
    settings,   \* table settings: key -> value
    products,   \* table products: sequence of rows, id = position
    skus,       \* table skus: sequence of rows, id = position
    orders,     \* table orders: sequence of rows, id = position
    sess,       \* st.session_state of each session: logged_in, user, cart
    run,        \* the script run in flight in each session, between its query and its commit
    credited,   \* history: per order id, how many commits added its item_count to a user
    rendered    \* per session, the waybills its last run of the admin orders tab drew

vars == <<users, settings, products, skus, orders, sess, run, credited, rendered>>

\* ----------------------------------------------------------------- settings
\* the defaults seeded by auto_migrate_db; discounts as 100 * multiplier
DefaultSettings ==
    [shipping_base |-> 10, shipping_extra |-> 5, free_threshold |-> 3,
     vip_l1_count |-> 10, vip_l1_discount |-> 95,
     vip_l2_count |-> 50, vip_l2_discount |-> 90,
     vip_l3_count |-> 100, vip_l3_discount |-> 85]

SettingKeys == DOMAIN DefaultSettings

get_setting(key, default_value) ==
    IF key \in DOMAIN settings THEN settings[key] ELSE default_value

\* str(v) on save and float(...) on load return the number that was entered
get_vip_and_ship_rules ==
    [k \in SettingKeys |-> get_setting(k, DefaultSettings[k])]

\* the tier chain testing the lowest tier first
TierLowestFirst(count, r) ==
    IF count >= r.vip_l1_count THEN [disc |-> r.vip_l1_discount, lvl |-> Silver]
    ELSE IF count >= r.vip_l2_count THEN [disc |-> r.vip_l2_discount, lvl |-> Gold]
    ELSE IF count >= r.vip_l3_count THEN [disc |-> r.vip_l3_discount, lvl |-> Diamond]
    ELSE [disc |-> 100, lvl |-> Normal]

\* the tier chain testing Gold before Diamond
TierGoldFirst(count, r) ==
    IF count >= r.vip_l2_count THEN [disc |-> r.vip_l2_discount, lvl |-> Gold]
    ELSE IF count >= r.vip_l3_count THEN [disc |-> r.vip_l3_discount, lvl |-> Diamond]
    ELSE IF count >= r.vip_l1_count THEN [disc |-> r.vip_l1_discount, lvl |-> Silver]
    ELSE [disc |-> 100, lvl |-> Normal]

\* the tier chain with exclusive thresholds
TierStrict(count, r) ==
    IF count > r.vip_l3_count THEN [disc |-> r.vip_l3_discount, lvl |-> Diamond]
    ELSE IF count > r.vip_l2_count THEN [disc |-> r.vip_l2_discount, lvl |-> Gold]
    ELSE IF count > r.vip_l1_count THEN [disc |-> r.vip_l1_discount, lvl |-> Silver]
    ELSE [disc |-> 100, lvl |-> Normal]

\* lines 262-265: the tier chain, for a lifetime count and the rules r
Tier(count, r) ==
    IF count >= r.vip_l3_count THEN [disc |-> r.vip_l3_discount, lvl |-> Diamond]
    ELSE IF count >= r.vip_l2_count THEN [disc |-> r.vip_l2_discount, lvl |-> Gold]
    ELSE IF count >= r.vip_l1_count THEN [disc |-> r.vip_l1_discount, lvl |-> Silver]
    ELSE [disc |-> 100, lvl |-> Normal]

calculate_user_discount(username) ==
    LET count == IF username \in DOMAIN users
                 THEN users[username].total_items_bought ELSE 0
        tier == Tier(count, get_vip_and_ship_rules)
    IN  [disc |-> tier.disc, lvl |-> tier.lvl, cnt |-> count]

\* ----------------------------------------------------------------- sessions
NoSession == [logged_in |-> FALSE, user |-> "", cart |-> <<>>]
Idle == [kind |-> "idle", order |-> 0, tn |-> "", count |-> 0]

IsIdle(s) == run[s].kind = "idle"
IsAdmin(s) ==
    /\ sess[s].logged_in /\ IsIdle(s)
    /\ sess[s].user \in DOMAIN users /\ users[sess[s].user].role = "admin"
IsShopper(s) ==
    /\ sess[s].logged_in /\ IsIdle(s)
    /\ sess[s].user \in DOMAIN users /\ users[sess[s].user].role = "user"

RECURSIVE SumPrices(_)
SumPrices(cart) ==
    IF cart = <<>> THEN 0 ELSE cart[1].price + SumPrices(Tail(cart))

RemoveAt(seq, i) ==
    [j \in 1..(Len(seq) - 1) |-> IF j < i THEN seq[j] ELSE seq[j + 1]]

\* --------------------------------------------------------------------- Init
Init ==
    /\ users = (AdminName :> [role |-> "admin", total_items_bought |-> 0])
    /\ settings = DefaultSettings
    /\ products = <<>>
    /\ skus = <<>>
    /\ orders = <<>>
    /\ sess = [s \in Sessions |-> NoSession]
    /\ run = [s \in Sessions |-> Idle]
    /\ credited = <<>>
    /\ rendered = [s \in Sessions |-> <<>>]

\* ------------------------------------------------------- session life cycle
\* a browser tab is closed and a new one opened: a fresh st.session_state
NewSession(s) ==
    /\ IsIdle(s)
    /\ sess[s] # NoSession
    /\ sess' = [sess EXCEPT ![s] = NoSession]
    /\ UNCHANGED <<users, settings, products, skus, orders, run, credited, rendered>>

\* the login form: an existing username logs the session in
Login(s, name) ==
    /\ IsIdle(s)
    /\ ~sess[s].logged_in
    /\ name \in DOMAIN users
    /\ sess' = [sess EXCEPT ![s].logged_in = TRUE, ![s].user = name]
    /\ UNCHANGED <<users, settings, products, skus, orders, run, credited, rendered>>

\* user_page: the sidebar's Logout button
Logout(s) ==
    /\ IsShopper(s)
    /\ sess' = [sess EXCEPT ![s].logged_in = FALSE]
    /\ UNCHANGED <<users, settings, products, skus, orders, run, credited, rendered>>

\* ------------------------------------------------------------ admin: users
AddUser(s, nu) ==
    /\ IsAdmin(s)
    /\ nu \notin DOMAIN users
    /\ users' = [n \in DOMAIN users \cup {nu} |->
                    IF n = nu THEN [role |-> "user", total_items_bought |-> 0]
                    ELSE users[n]]
    /\ UNCHANGED <<settings, products, skus, orders, sess, run, credited, rendered>>

\* ---------------------------------------------------------- admin: publish
\* names (colours, sizes, codes) are sequences of characters
sku_code(c, s) == c \o <<"-">> \o s

\* itertools.product(colors, sizes): row k of the matrix
MatrixColor(colors, sizes, k) == colors[((k - 1) \div Len(sizes)) + 1]
MatrixSize(colors, sizes, k) == sizes[((k - 1) % Len(sizes)) + 1]

\* save_file_to_supabase: "" without a file, the public URL after an upload that
\* went through, "" after one that raised; ok is the outcome of the upload call
Url(prefix) == IF prefix = "main" THEN "url_main" ELSE "url_sku"

save_file_keeps_url(file, prefix, ok) ==
    IF ~file THEN "" ELSE Url(prefix)

save_file_to_supabase(file, prefix, ok) ==
    IF ~file THEN "" ELSE IF ok THEN Url(prefix) ELSE ""

Distinct(seq) == \A i, j \in 1..Len(seq) : seq[i] = seq[j] => i = j

\* fewer than max products are published or being published
CanPublish(max) ==
    Len(products) + Cardinality({s \in Sessions : run[s].kind = "publish"}) < max

\* lines 275-299: the publish form f (p_name, the stripped non-empty colour and size
\* entries, the price and stock columns of the edited matrix, the files chosen) is
\* saved: the run uploads the main image and, row by row, the image of the row's
\* colour; fails names the upload calls that raise (0 for the main image, k for
\* the image of row k).
\* Two equal colour entries give two file uploaders the same key u_{c} at line 286,
\* which raises before the Save button is reached.
PublishSubmit(s, f, fails) ==
    /\ IsAdmin(s)
    /\ f.p_name # "" /\ f.colors # <<>> /\ f.sizes # <<>>
    /\ Distinct(f.colors)
    /\ LET n == Len(f.colors) * Len(f.sizes)
       IN  run' = [run EXCEPT ![s] =
                     [kind |-> "publish", form |-> f, fails |-> fails,
                      main_path |-> save_file_to_supabase(f.main_file, "main",
                                                          0 \notin fails),
                      img_paths |-> [k \in 1..n |->
                          save_file_to_supabase(
                              MatrixColor(f.colors, f.sizes, k) \in f.color_imgs,
                              "sku", k \notin fails)]]]
    /\ UNCHANGED <<users, settings, products, skus, orders, sess, credited, rendered>>

\* lines 295-301: the product row and one SKU row per row of the matrix are
\* inserted and committed
PublishCommit(s) ==
    /\ run[s].kind = "publish"
    /\ LET f == run[s].form
           pid == Len(products) + 1
           n == Len(f.colors) * Len(f.sizes)
           rows == [k \in 1..n |->
                      [id |-> Len(skus) + k, product_id |-> pid,
                       sku_code |-> sku_code(MatrixColor(f.colors, f.sizes, k),
                                             MatrixSize(f.colors, f.sizes, k)),
                       color |-> MatrixColor(f.colors, f.sizes, k),
                       size |-> MatrixSize(f.colors, f.sizes, k),
                       price |-> f.prices[k], stock |-> f.stocks[k],
                       image_path |-> run[s].img_paths[k]]]
       IN  /\ products' = Append(products,
                            [id |-> pid, name |-> f.p_name, status |-> "active",
                             main_image |-> run[s].main_path])
           /\ skus' = skus \o rows
    /\ run' = [run EXCEPT ![s] = Idle]
    /\ UNCHANGED <<users, settings, orders, sess, credited, rendered>>

\* ------------------------------------------------- admin: product management
ProductSkus(p) == {k \in 1..Len(skus) : skus[k].product_id = p}

\* lines 308-354: the edit form of product p is saved. The run has loaded the
\* product's SKU rows at line 313 (snap) and df_edit holds, per row, the SKU, Price
\* and Stock cells as the admin left them. The name, the description and the
\* images are left as they are.
EditLoad(s, p, df_edit) ==
    /\ IsAdmin(s)
    /\ p \in 1..Len(products) /\ products[p].status = "active"
    /\ ProductSkus(p) # {}
    /\ DOMAIN df_edit = ProductSkus(p)
    /\ run' = [run EXCEPT ![s] =
                 [kind |-> "edit", product |-> p,
                  snap |-> [k \in ProductSkus(p) |->
                              [SKU |-> skus[k].sku_code, Price |-> skus[k].price,
                               Stock |-> skus[k].stock]],
                  df_edit |-> df_edit]]
    /\ UNCHANGED <<users, settings, products, skus, orders, sess, credited, rendered>>

\* the save refusing a row that another commit changed since the run loaded it
EditCommitIfUnchanged(s) ==
    /\ run[s].kind = "edit"
    /\ skus' = [k \in 1..Len(skus) |->
                  IF k \in DOMAIN run[s].df_edit
                     /\ skus[k].price = run[s].snap[k].Price
                     /\ skus[k].stock = run[s].snap[k].Stock
                     /\ skus[k].sku_code = run[s].snap[k].SKU
                  THEN [skus[k] EXCEPT !.price = run[s].df_edit[k].Price,
                                       !.stock = run[s].df_edit[k].Stock,
                                       !.sku_code = run[s].df_edit[k].SKU]
                  ELSE skus[k]]
    /\ run' = [run EXCEPT ![s] = Idle]
    /\ UNCHANGED <<users, settings, products, orders, sess, credited, rendered>>

\* lines 355-363: so.price=row['Price']; so.stock=row['Stock'];
\* so.sku_code=row['SKU'] on the rows the run loaded, then session.commit(). The
\* flush writes, with UPDATE ... WHERE id = ?, the attributes whose value differs
\* from the loaded one; an attribute set to its loaded value is not written.
EditCommit(s) ==
    /\ run[s].kind = "edit"
    /\ skus' = [k \in 1..Len(skus) |->
                  IF k \in DOMAIN run[s].df_edit
                  THEN LET row == run[s].df_edit[k]
                           so == run[s].snap[k]
                       IN  [skus[k] EXCEPT
                              !.price = IF row.Price # so.Price THEN row.Price ELSE @,
                              !.stock = IF row.Stock # so.Stock THEN row.Stock ELSE @,
                              !.sku_code = IF row.SKU # so.SKU THEN row.SKU ELSE @]
                  ELSE skus[k]]
    /\ run' = [run EXCEPT ![s] = Idle]
    /\ UNCHANGED <<users, settings, products, orders, sess, credited, rendered>>

\* ------------------------------------------------------------- shop and cart
\* next(s for s in skus if s.color==sel_c and s.size==sel_s): the first match
Matches(p, c, sz) ==
    {k \in 1..Len(skus) :
        skus[k].product_id = p /\ skus[k].color = c /\ skus[k].size = sz}

Target(p, c, sz) ==
    skus[CHOOSE k \in Matches(p, c, sz) : \A j \in Matches(p, c, sz) : k <= j]

\* the price line 450 captures: target.price * disc
CartPrice(target, disc) == target.price * disc

AddToCart(s, p, c, sz) ==
    /\ IsShopper(s)
    /\ p \in 1..Len(products) /\ products[p].status = "active"
    /\ Matches(p, c, sz) # {}
    /\ Len(sess[s].cart) < MaxCart
    /\ LET target == Target(p, c, sz)
           disc == calculate_user_discount(sess[s].user).disc
       IN  sess' = [sess EXCEPT ![s].cart = Append(@,
                      [name |-> products[p].name, sku |-> target.sku_code,
                       spec |-> <<c, sz>>, price |-> CartPrice(target, disc),
                       img |-> target.image_path])]
    /\ UNCHANGED <<users, settings, products, skus, orders, run, credited, rendered>>

DelFromCart(s, i) ==
    /\ IsShopper(s)
    /\ i \in 1..Len(sess[s].cart)
    /\ sess' = [sess EXCEPT ![s].cart = RemoveAt(@, i)]
    /\ UNCHANGED <<users, settings, products, skus, orders, run, credited, rendered>>

\* a checkout charging the base shipping fee on top of the cart's prices
CheckoutWithShipping(s, name) ==
    /\ IsShopper(s)
    /\ sess[s].cart # <<>>
    /\ Len(orders) < MaxOrders
    /\ IF name # ""
       THEN LET cart == sess[s].cart
            IN  /\ orders' = Append(orders,
                       [id |-> Len(orders) + 1, username |-> sess[s].user,
                        items |-> [i \in 1..Len(cart) |->
                                     [sku |-> cart[i].sku, name |-> cart[i].name,
                                      spec |-> cart[i].spec]],
                        total_price |-> SumPrices(cart)
                                        + 100 * get_vip_and_ship_rules.shipping_base,
                        address |-> name,
                        status |-> Pending, tracking_number |-> "",
                        item_count |-> Len(cart)])
                /\ credited' = Append(credited, 0)
                /\ sess' = [sess EXCEPT ![s].cart = <<>>]
       ELSE UNCHANGED <<orders, credited, sess>>
    /\ UNCHANGED <<users, settings, products, skus, run, rendered>>

\* lines 455-476: the checkout form; name is the recipient field. The form exists
\* only while the cart is not empty.
Checkout(s, name) ==
    /\ IsShopper(s)
    /\ sess[s].cart # <<>>
    /\ Len(orders) < MaxOrders
    /\ IF name # ""
       THEN LET cart == sess[s].cart
            IN  /\ orders' = Append(orders,
                       [id |-> Len(orders) + 1, username |-> sess[s].user,
                        items |-> [i \in 1..Len(cart) |->
                                     [sku |-> cart[i].sku, name |-> cart[i].name,
                                      spec |-> cart[i].spec]],
                        total_price |-> SumPrices(cart), address |-> name,
                        status |-> Pending, tracking_number |-> "",
                        item_count |-> Len(cart)])
                /\ credited' = Append(credited, 0)
                /\ sess' = [sess EXCEPT ![s].cart = <<>>]
       ELSE UNCHANGED <<orders, credited, sess>>
    /\ UNCHANGED <<users, settings, products, skus, run, rendered>>

\* ------------------------------------------------------------ admin: orders
\* a transaction that has flushed its UPDATE of an order row holds the row's lock
\* until it commits
RowLocked(o) ==
    \E s \in Sessions : run[s].kind = "confirm_flushed" /\ run[s].order = o

\* lines 369-377: the run queries the orders, finds o pending, and the Ship button
\* of o was pressed with tn in its text input
ShipLoad(s, o, tn) ==
    /\ IsAdmin(s)
    /\ o \in 1..Len(orders)
    /\ orders[o].status = Pending
    /\ run' = [run EXCEPT ![s] = [kind |-> "ship", order |-> o, tn |-> tn, count |-> 0]]
    /\ UNCHANGED <<users, settings, products, skus, orders, sess, credited, rendered>>

\* line 378: o.status='已发货'; o.tracking_number=tn; session.commit(). The flush
\* writes the attributes whose value differs from the one the run loaded: the
\* status always, the tracking number unless tn is the '' of the pending row.
ShipCommit(s) ==
    /\ run[s].kind = "ship"
    /\ ~RowLocked(run[s].order)
    /\ orders' = [orders EXCEPT ![run[s].order].status = Shipped,
                                ![run[s].order].tracking_number =
                                    IF run[s].tn # "" THEN run[s].tn ELSE @]
    /\ run' = [run EXCEPT ![s] = Idle]
    /\ UNCHANGED <<users, settings, products, skus, sess, credited, rendered>>

\* --------------------------------------------------------- user: my orders
\* lines 480-487: the run queries the user's orders, finds o shipped, and the
\* confirm-receipt button of o was pressed
ConfirmLoad(s, o) ==
    /\ IsShopper(s)
    /\ o \in 1..Len(orders)
    /\ orders[o].username = sess[s].user
    /\ orders[o].status = Shipped
    /\ run' = [run EXCEPT ![s] =
                  [kind |-> "confirm_loaded", order |-> o, tn |-> "", count |-> 0]]
    /\ UNCHANGED <<users, settings, products, skus, orders, sess, credited, rendered>>

\* lines 488-489: o.status is set and the query for the user autoflushes the
\* UPDATE of the order row (waiting for the row's lock), then reads the user row
ConfirmFlush(s) ==
    /\ run[s].kind = "confirm_loaded"
    /\ ~RowLocked(run[s].order)
    /\ run' = [run EXCEPT ![s].kind = "confirm_flushed",
                          ![s].count = users[sess[s].user].total_items_bought]
    /\ UNCHANGED <<users, settings, products, skus, orders, sess, credited, rendered>>

\* the commit adding one per order instead of the order's item_count
ConfirmCommitOnePerOrder(s) ==
    /\ run[s].kind = "confirm_flushed"
    /\ LET o == run[s].order
       IN  /\ orders' = [orders EXCEPT ![o].status = Delivered]
           /\ users' = [users EXCEPT ![sess[s].user].total_items_bought =
                                        run[s].count + 1]
           /\ credited' = [credited EXCEPT ![o] = @ + 1]
    /\ run' = [run EXCEPT ![s] = Idle]
    /\ UNCHANGED <<settings, products, skus, sess, rendered>>

\* lines 490-491: u.total_items_bought += o.item_count; session.commit()
ConfirmCommit(s) ==
    /\ run[s].kind = "confirm_flushed"
    /\ LET o == run[s].order
       IN  /\ orders' = [orders EXCEPT ![o].status = Delivered]
           /\ users' = [users EXCEPT ![sess[s].user].total_items_bought =
                                        run[s].count + orders[o].item_count]
           /\ credited' = [credited EXCEPT ![o] = @ + 1]
    /\ run' = [run EXCEPT ![s] = Idle]
    /\ UNCHANGED <<settings, products, skus, sess, rendered>>

\* ---------------------------------------------------------- admin: waybills
\* generate_waybill: the first item line is drawn at YStart, each next one YStep
\* lower, and the loop breaks before a line whose y exceeds YLimit
YStart == 350
YLimit == 650
YStep == 40

\* order_obj.items.split('\n'): checkout joins one line per cart entry, and
\* an entry (SKU code, product name, colour/size) spans one line
ItemLines(order_obj) ==
    [i \in 1..Len(order_obj.items) |->
       <<order_obj.items[i].sku, order_obj.items[i].name, order_obj.items[i].spec>>]

\* the loop without its break
RECURSIVE DrawItemsNoBreak(_, _)
DrawItemsNoBreak(lines, y) ==
    IF lines = <<>> THEN <<>>
    ELSE <<[y |-> y, text |-> Head(lines)]>> \o DrawItemsNoBreak(Tail(lines), y + YStep)

\* lines 239-243: the draw.text calls of the loop, in order
RECURSIVE DrawItems(_, _)
DrawItems(lines, y) ==
    IF lines = <<>> \/ y > YLimit THEN <<>>
    ELSE <<[y |-> y, text |-> Head(lines)]>> \o DrawItems(Tail(lines), y + YStep)

\* lines 224-250: what the image shows of the order
generate_waybill(order_obj) ==
    [no |-> order_obj.id, to |-> order_obj.username,
     items |-> DrawItems(ItemLines(order_obj), YStart),
     total |-> order_obj.total_price,
     track |-> IF order_obj.tracking_number # ""
               THEN order_obj.tracking_number ELSE ""]

\* lines 369-382: a run of the orders tab draws the waybill of every order
ViewOrders(s) ==
    /\ IsAdmin(s)
    /\ rendered' = [rendered EXCEPT ![s] =
                      [o \in 1..Len(orders) |-> generate_waybill(orders[o])]]
    /\ UNCHANGED <<users, settings, products, skus, orders, sess, run, credited>>

\* ---------------------------------------------------------- admin: settings
\* lines 397-404: every key of the form is written with the entered value
SaveSettings(s, map_val) ==
    /\ IsAdmin(s)
    /\ settings' = [k \in DOMAIN settings \cup DOMAIN map_val |->
                      IF k \in DOMAIN map_val THEN map_val[k] ELSE settings[k]]
    /\ UNCHANGED <<users, products, skus, orders, sess, run, credited, rendered>>

\* ------------------------------------------------------------ specification
\* the inputs the forms are given
RecipientInputs == {"", "N"}
TrackInputs == {"", "T1"}
NameInputs == {<<"R">>, <<"S">>}
PublishInputs ==
    {[p_name |-> "P", colors |-> << <<"R">> >>, sizes |-> << <<"S">> >>,
      prices |-> <<99>>, stocks |-> <<100>>, main_file |-> FALSE, color_imgs |-> {}]}
SettingsInputs ==
    {[DefaultSettings EXCEPT !.shipping_base = b] : b \in {10, 12}}

Next ==
    \/ \E s \in Sessions : NewSession(s)
    \/ \E s \in Sessions, name \in Usernames : Login(s, name)
    \/ \E s \in Sessions : Logout(s)
    \/ \E s \in Sessions, nu \in Shoppers : AddUser(s, nu)
    \/ \E s \in Sessions, f \in PublishInputs :
          CanPublish(MaxProducts) /\ PublishSubmit(s, f, {})
    \/ \E s \in Sessions : PublishCommit(s)
    \/ \E s \in Sessions, p \in 1..MaxProducts, c \in NameInputs, sz \in NameInputs :
          AddToCart(s, p, c, sz)
    \/ \E s \in Sessions, i \in 1..MaxCart : DelFromCart(s, i)
    \/ \E s \in Sessions, name \in RecipientInputs : Checkout(s, name)
    \/ \E s \in Sessions, o \in 1..MaxOrders, tn \in TrackInputs : ShipLoad(s, o, tn)
    \/ \E s \in Sessions : ShipCommit(s)
    \/ \E s \in Sessions, o \in 1..MaxOrders : ConfirmLoad(s, o)
    \/ \E s \in Sessions : ConfirmFlush(s)
    \/ \E s \in Sessions : ConfirmCommit(s)
    \/ \E s \in Sessions, v \in SettingsInputs : SaveSettings(s, v)

Spec == Init /\ [][Next]_vars

\* ------------------------------------------------ specification: pricing
\* The pricing function over every lifetime count up to MaxCount: a shop with one
\* published variant, an admin session and a session of a customer who has bought
\* any number of items so far; the admin saves settings, the customer fills the cart.
PricingSettingsInputs ==
    {[DefaultSettings EXCEPT !.vip_l1_count = c1, !.vip_l2_count = c2,
                             !.vip_l1_discount = d1, !.vip_l3_discount = d3] :
        c1 \in {0, 10}, c2 \in {5, 50}, d1 \in {95, 150}, d3 \in {0, 85, 95}}

InitPricing ==
    /\ \E c \in 0..MaxCount :
          users = [n \in {AdminName, "u1"} |->
                     IF n = AdminName THEN [role |-> "admin", total_items_bought |-> 0]
                     ELSE [role |-> "user", total_items_bought |-> c]]
    /\ settings = DefaultSettings
    /\ products = <<[id |-> 1, name |-> "P", status |-> "active", main_image |-> ""]>>
    /\ skus = <<[id |-> 1, product_id |-> 1, sku_code |-> sku_code(<<"R">>, <<"S">>),
                 color |-> <<"R">>, size |-> <<"S">>, price |-> 99, stock |-> 100,
                 image_path |-> ""]>>
    /\ orders = <<>>
    /\ sess = [s \in Sessions |->
                 IF s = "s1" THEN [logged_in |-> TRUE, user |-> AdminName, cart |-> <<>>]
                 ELSE [logged_in |-> TRUE, user |-> "u1", cart |-> <<>>]]
    /\ run = [s \in Sessions |-> Idle]
    /\ credited = <<>>
    /\ rendered = [s \in Sessions |-> <<>>]

NextPricing ==
    \/ \E s \in Sessions, v \in PricingSettingsInputs : SaveSettings(s, v)
    \/ \E s \in Sessions, p \in 1..MaxProducts, c \in NameInputs, sz \in NameInputs :
          AddToCart(s, p, c, sz)
    \/ \E s \in Sessions, i \in 1..MaxCart : DelFromCart(s, i)

SpecPricing == InitPricing /\ [][NextPricing]_vars

\* the admin's catalog: two admin sessions, a catalog of one product and one
\* pending order of a shopper for it
AdminTrackInputs == {"", "T1", "T2"}

\* the publish forms: two colours by two sizes with a main image and an image for
\* the first colour; a repeated size; names containing '-'; a negative price;
\* a zero stock
AdminPublishInputs ==
    {[p_name |-> "Q", colors |-> << <<"R">>, <<"B">> >>, sizes |-> << <<"S">>, <<"M">> >>,
      prices |-> <<99, 99, 99, 99>>, stocks |-> <<100, 100, 100, 100>>,
      main_file |-> TRUE, color_imgs |-> {<<"R">>}],
     [p_name |-> "Q", colors |-> << <<"R">> >>, sizes |-> << <<"S">>, <<"S">> >>,
      prices |-> <<99, 99>>, stocks |-> <<100, 100>>,
      main_file |-> FALSE, color_imgs |-> {}],
     [p_name |-> "Q", colors |-> << <<"a", "-", "b">>, <<"a">> >>,
      sizes |-> << <<"c">>, <<"b", "-", "c">> >>,
      prices |-> <<99, 99, 99, 99>>, stocks |-> <<100, 100, 100, 100>>,
      main_file |-> FALSE, color_imgs |-> {}],
     [p_name |-> "Q", colors |-> << <<"R">> >>, sizes |-> << <<"S">> >>,
      prices |-> <<0 - 1>>, stocks |-> <<100>>,
      main_file |-> FALSE, color_imgs |-> {}],
     [p_name |-> "Q", colors |-> << <<"R">> >>, sizes |-> << <<"S">> >>,
      prices |-> <<99>>, stocks |-> <<0>>,
      main_file |-> FALSE, color_imgs |-> {<<"R">>}]}

\* the upload calls a publish of form f makes
UploadCalls(f) ==
    (IF f.main_file THEN {0} ELSE {})
    \cup {k \in 1..(Len(f.colors) * Len(f.sizes)) :
             MatrixColor(f.colors, f.sizes, k) \in f.color_imgs}

\* the edit tables: the loaded table with one cell of its first row changed
EditInputs(p) ==
    LET ids == ProductSkus(p)
        first == CHOOSE k \in ids : \A j \in ids : k <= j
        loaded == [k \in ids |-> [SKU |-> skus[k].sku_code, Price |-> skus[k].price,
                                    Stock |-> skus[k].stock]]
    IN  {[loaded EXCEPT ![first].Price = v] : v \in {50, 70}}
        \cup {[loaded EXCEPT ![first].Stock = v] : v \in {0 - 5}}

InitAdmin ==
    /\ users = [n \in {AdminName, "u1"} |->
                  IF n = AdminName THEN [role |-> "admin", total_items_bought |-> 0]
                  ELSE [role |-> "user", total_items_bought |-> 0]]
    /\ settings = DefaultSettings
    /\ products = << [id |-> 1, name |-> "P", status |-> "active", main_image |-> ""] >>
    /\ skus = << [id |-> 1, product_id |-> 1, sku_code |-> <<"R", "-", "S">>,
                 color |-> <<"R">>, size |-> <<"S">>, price |-> 99, stock |-> 100,
                 image_path |-> ""] >>
    /\ orders = << [id |-> 1, username |-> "u1",
                   items |-> << [sku |-> <<"R", "-", "S">>, name |-> "P",
                                 spec |-> << <<"R">>, <<"S">> >>] >>,
                   total_price |-> 9900, address |-> "N", status |-> Pending,
                   tracking_number |-> "", item_count |-> 1] >>
    /\ sess = [s \in Sessions |-> [logged_in |-> TRUE, user |-> AdminName, cart |-> <<>>]]
    /\ run = [s \in Sessions |-> Idle]
    /\ credited = <<0>>
    /\ rendered = [s \in Sessions |-> <<>>]

NextAdmin ==
    \/ \E s \in Sessions, f \in AdminPublishInputs :
          \E fails \in SUBSET UploadCalls(f) :
             CanPublish(MaxProducts + 1) /\ PublishSubmit(s, f, fails)
    \/ \E s \in Sessions : PublishCommit(s)
    \/ \E s \in Sessions, p \in 1..Len(products) :
          \E df_edit \in EditInputs(p) : EditLoad(s, p, df_edit)
    \/ \E s \in Sessions : EditCommit(s)

SpecAdmin == InitAdmin /\ [][NextAdmin]_vars

\* two admin sessions saving edits of the same SKU and shipping the same order
NextRace ==
    \/ \E s \in Sessions, p \in 1..Len(products) :
          \E df_edit \in EditInputs(p) : EditLoad(s, p, df_edit)
    \/ \E s \in Sessions : EditCommit(s)
    \/ \E s \in Sessions, o \in 1..Len(orders), tn \in AdminTrackInputs : ShipLoad(s, o, tn)
    \/ \E s \in Sessions : ShipCommit(s)

SpecRace == InitAdmin /\ [][NextRace]_vars

\* the waybills: two admin sessions and one order of n item lines, each line a
\* SKU of one product in a size of its own (X, XX, XXX, ...)
SizeName(i) == [j \in 1..i |-> "X"]

InitWaybill ==
    \E n \in 1..MaxLines :
       /\ users = [u \in {AdminName, "u1"} |->
                     IF u = AdminName THEN [role |-> "admin", total_items_bought |-> 0]
                     ELSE [role |-> "user", total_items_bought |-> 0]]
       /\ settings = DefaultSettings
       /\ products = << [id |-> 1, name |-> "P", status |-> "active", main_image |-> ""] >>
       /\ skus = [k \in 1..n |->
                    [id |-> k, product_id |-> 1, sku_code |-> sku_code(<<"R">>, SizeName(k)),
                     color |-> <<"R">>, size |-> SizeName(k), price |-> 99, stock |-> 100,
                     image_path |-> ""]]
       /\ orders = << [id |-> 1, username |-> "u1",
                      items |-> [k \in 1..n |->
                                   [sku |-> sku_code(<<"R">>, SizeName(k)), name |-> "P",
                                    spec |-> << <<"R">>, SizeName(k) >>]],
                      total_price |-> 9900 * n, address |-> "N", status |-> Pending,
                      tracking_number |-> "", item_count |-> n] >>
       /\ sess = [s \in Sessions |-> [logged_in |-> TRUE, user |-> AdminName, cart |-> <<>>]]
       /\ run = [s \in Sessions |-> Idle]
       /\ credited = <<0>>
       /\ rendered = [s \in Sessions |-> <<>>]

NextWaybill ==
    \/ \E s \in Sessions : ViewOrders(s)
    \/ \E s \in Sessions, o \in 1..Len(orders), tn \in TrackInputs : ShipLoad(s, o, tn)
    \/ \E s \in Sessions : ShipCommit(s)

SpecWaybill == InitWaybill /\ [][NextWaybill]_vars

\* ------------------------------------------------------------------ claims
Rank(status) == IF status = Pending THEN 1 ELSE IF status = Shipped THEN 2 ELSE 3

\* the session that commits a confirm-receipt in this step
CommitsConfirm(s) == run[s].kind = "confirm_flushed" /\ run'[s].kind = "idle"

\* C1: every order's status is pending, shipped or delivered, and a step changes an
\* order's status only from pending to shipped or from shipped to delivered: never
\* backward, never from pending to delivered, and never once it is delivered.
C1_StatusForwardOnly ==
    [][\A o \in 1..Len(orders) :
          /\ orders[o].status \in Statuses
          /\ orders'[o].status \in Statuses
          /\ \/ orders'[o].status = orders[o].status
             \/ orders[o].status = Pending /\ orders'[o].status = Shipped
             \/ orders[o].status = Shipped /\ orders'[o].status = Delivered]_vars

\* C2: every order whose status is shipped or delivered has a non-empty
\* tracking number (shipping with an empty tracking-number input changes nothing).
C2_ShippedHasTracking ==
    \A o \in 1..Len(orders) :
        orders[o].status \in {Shipped, Delivered} => orders[o].tracking_number # ""

\* C3: over any interleaving of confirm-receipt runs, an order's item_count is
\* added to its owner's total_items_bought at most once.
C3_CreditedAtMostOnce ==
    \A o \in 1..Len(orders) : credited[o] <= 1

\* C4: a confirm-receipt that commits on an order still shipped, with no other
\* commit to the user's row since it read the row, sets the order to delivered,
\* adds exactly the order's item_count to total_items_bought of the order's own
\* user, and leaves every other user and every other order as they were.
C4_ConfirmEffect ==
    [][\A s \in Sessions :
          (/\ CommitsConfirm(s)
           /\ orders[run[s].order].status = Shipped
           /\ run[s].count = users[sess[s].user].total_items_bought)
          => LET o == run[s].order
                 u == orders[o].username
             IN  /\ orders' = [orders EXCEPT ![o].status = Delivered]
                 /\ DOMAIN users' = DOMAIN users
                 /\ users'[u].total_items_bought =
                       users[u].total_items_bought + orders[o].item_count
                 /\ users'[u].role = users[u].role
                 /\ \A n \in DOMAIN users \ {u} : users'[n] = users[n]]_vars

\* C4 witness: an order of two items was confirmed and its owner, who had bought
\* nothing before, now has a lifetime count of two, the admin's count still zero.
C4_Witness ==
    \E o \in 1..Len(orders) :
        /\ orders[o].status = Delivered /\ orders[o].item_count = 2
        /\ credited[o] = 1
        /\ users[orders[o].username].total_items_bought = 2
        /\ users[AdminName].total_items_bought = 0
        /\ \E o2 \in 1..Len(orders) : o2 # o /\ orders[o2].status = Shipped

\* the tiers as numbered by the settings keys vip_l1 .. vip_l3
Threshold(r, i) ==
    IF i = 1 THEN r.vip_l1_count ELSE IF i = 2 THEN r.vip_l2_count ELSE r.vip_l3_count
Discount(r, i) ==
    IF i = 1 THEN r.vip_l1_discount ELSE IF i = 2 THEN r.vip_l2_discount
    ELSE r.vip_l3_discount
TierRank(lvl) ==
    IF lvl = Silver THEN 1 ELSE IF lvl = Gold THEN 2 ELSE IF lvl = Diamond THEN 3 ELSE 0
Qualifying(count, r) == {i \in 1..3 : count >= Threshold(r, i)}
Highest(Q) == CHOOSE i \in Q : \A j \in Q : j <= i
DiscountsOrdered(r) ==
    r.vip_l1_discount >= r.vip_l2_discount /\ r.vip_l2_discount >= r.vip_l3_discount
CountOf(name) ==
    IF name \in DOMAIN users THEN users[name].total_items_bought ELSE 0

\* C5 as claimed: for every count and every stored setting the multiplier returned
\* is that of the highest qualifying tier and is the lowest among the multipliers
\* of all qualifying tiers.
C5_HighestIsLowest ==
    \A name \in Usernames :
        LET r == get_vip_and_ship_rules
            Q == Qualifying(CountOf(name), r)
            res == calculate_user_discount(name)
        IN  Q # {} => /\ res.disc = Discount(r, Highest(Q))
                      /\ \A i \in Q : res.disc <= Discount(r, i)

\* C5 amended: the multiplier returned is that of the highest qualifying tier (1.0
\* when no tier qualifies), and it is the lowest among the multipliers of all
\* qualifying tiers whenever the stored discounts do not increase with the tier.
C5_HighestTierWins ==
    \A name \in Usernames :
        LET r == get_vip_and_ship_rules
            Q == Qualifying(CountOf(name), r)
            res == calculate_user_discount(name)
        IN  /\ Q = {} => res.disc = 100
            /\ Q # {} => /\ res.disc = Discount(r, Highest(Q))
                         /\ TierRank(res.lvl) = Highest(Q)
                         /\ DiscountsOrdered(r) =>
                               \A i \in Q : res.disc <= Discount(r, i)

\* C5 witness: a customer whose count satisfies all three thresholds, under
\* settings other than the defaults with ordered discounts, has the variant in
\* the cart at the Diamond price.
C5_Witness ==
    \E s \in Sessions :
        LET r == get_vip_and_ship_rules
        IN  /\ sess[s].logged_in /\ sess[s].cart # <<>>
            /\ Qualifying(CountOf(sess[s].user), r) = {1, 2, 3}
            /\ settings # DefaultSettings /\ DiscountsOrdered(r)
            /\ r.vip_l1_discount > r.vip_l3_discount
            /\ sess[s].cart[Len(sess[s].cart)].price = 99 * r.vip_l3_discount

\* C6: under the default settings the multiplier does not increase with the
\* lifetime count, and counts 5, 10, 50, 100 give 1.0, 0.95, 0.90, 0.85.
C6_DefaultMonotone ==
    get_vip_and_ship_rules = DefaultSettings =>
        \A name \in DOMAIN users :
            LET c == CountOf(name)
                d == calculate_user_discount(name).disc
            IN  /\ \A c1 \in 0..MaxCount :
                      /\ c1 <= c => d <= Tier(c1, DefaultSettings).disc
                      /\ c <= c1 => Tier(c1, DefaultSettings).disc <= d
                /\ c = 5 => d = 100
                /\ c = 10 => d = 95
                /\ c = 50 => d = 90
                /\ c = 100 => d = 85

\* C6 witness: under the defaults a customer with a lifetime count of 100 has
\* the variant of list price 99 in the cart at 0.85 of it.
C6_Witness ==
    \E s \in Sessions :
        /\ settings = DefaultSettings
        /\ sess[s].logged_in /\ CountOf(sess[s].user) = 100
        /\ sess[s].cart # <<>> /\ sess[s].cart[1].price = 99 * 85

\* C7 as claimed: a count equal to a tier's threshold selects that tier, never a
\* lower one; a count below every threshold, and a username with no user record,
\* give multiplier 1.0 and the Normal label.
C7_InclusiveAndNeutral ==
    \A name \in Usernames :
        LET r == get_vip_and_ship_rules
            c == CountOf(name)
            res == calculate_user_discount(name)
        IN  /\ \A i \in 1..3 : c = Threshold(r, i) => TierRank(res.lvl) >= i
            /\ (\A i \in 1..3 : c < Threshold(r, i)) => res.disc = 100 /\ res.lvl = Normal
            /\ name \notin DOMAIN users => res.disc = 100 /\ res.lvl = Normal

\* C7 amended: a count equal to a tier's threshold selects that tier, never a
\* lower one; a count below every threshold gives multiplier 1.0 and the Normal
\* label; a username with no user record is priced as count 0, so it gives 1.0
\* and Normal whenever every threshold is above 0, as under the defaults.
C7_InclusiveAndNeutralFromZero ==
    \A name \in Usernames :
        LET r == get_vip_and_ship_rules
            c == CountOf(name)
            res == calculate_user_discount(name)
        IN  /\ \A i \in 1..3 : c = Threshold(r, i) => TierRank(res.lvl) >= i
            /\ (\A i \in 1..3 : c < Threshold(r, i)) => res.disc = 100 /\ res.lvl = Normal
            /\ name \notin DOMAIN users =>
                  /\ res.cnt = 0
                  /\ (\A i \in 1..3 : 0 < Threshold(r, i)) =>
                        res.disc = 100 /\ res.lvl = Normal

\* C7 witness: under the defaults a customer with a count of exactly 10 is Silver
\* and has the variant in the cart at 0.95, while "u2" has no user record.
C7_Witness ==
    \E s \in Sessions :
        /\ settings = DefaultSettings
        /\ sess[s].logged_in /\ CountOf(sess[s].user) = 10
        /\ calculate_user_discount(sess[s].user).lvl = Silver
        /\ sess[s].cart # <<>> /\ sess[s].cart[1].price = 99 * 95
        /\ "u2" \notin DOMAIN users
        /\ calculate_user_discount("u2").lvl = Normal

\* C8: the multiplier returned for any user is in (0, 1], and every price in a
\* cart is above zero and at most the list price of its variant.
C8_MultiplierInUnitInterval ==
    /\ \A name \in Usernames :
          /\ calculate_user_discount(name).disc > 0
          /\ calculate_user_discount(name).disc <= 100
    /\ \A s \in Sessions : \A i \in 1..Len(sess[s].cart) :
          \A k \in 1..Len(skus) :
              skus[k].sku_code = sess[s].cart[i].sku =>
                  /\ sess[s].cart[i].price > 0
                  /\ sess[s].cart[i].price <= 100 * skus[k].price

\* C9: no step lowers a user's total_items_bought.
C9_CountNeverDecreases ==
    [][\A n \in DOMAIN users :
          users'[n].total_items_bought >= users[n].total_items_bought]_vars

\* C10: the cart of a session is empty after the step in which the session logs
\* out and after the step in which its checkout creates an order.
C10_CartEmptyAfterCheckoutOrLogout ==
    [][\A s \in Sessions :
          /\ (sess[s].logged_in /\ ~sess'[s].logged_in) => sess'[s].cart = <<>>
          /\ (Len(orders') > Len(orders) /\ sess'[s] # sess[s]) =>
                sess'[s].cart = <<>>]_vars

\* C16: every step leaves the orders in place or appends exactly one; an order that
\* exists keeps its username, items, total_price and item_count; an appended
\* order belongs to a session that had a non-empty cart and gave a non-empty
\* recipient name: it carries that session's user, status pending, one item per
\* cart entry, item_count the length of the cart and total_price the sum of the
\* prices the cart entries captured, whatever the shipping settings are, and the
\* session's cart is emptied; a logged-in session's cart of two entries is never
\* emptied in one step without an order being appended.
C16_CheckoutCreatesOneOrder ==
    [][/\ Len(orders') \in {Len(orders), Len(orders) + 1}
       /\ \A o \in 1..Len(orders) :
             /\ orders'[o].id = orders[o].id
             /\ orders'[o].username = orders[o].username
             /\ orders'[o].items = orders[o].items
             /\ orders'[o].total_price = orders[o].total_price
             /\ orders'[o].item_count = orders[o].item_count
       /\ Len(orders') = Len(orders) + 1 =>
             LET new == orders'[Len(orders')]
             IN  \E s \in Sessions :
                    /\ sess[s].logged_in /\ sess[s].cart # <<>>
                    /\ new.username = sess[s].user
                    /\ new.status = Pending
                    /\ new.address # ""
                    /\ new.item_count = Len(sess[s].cart)
                    /\ Len(new.items) = Len(sess[s].cart)
                    /\ \A i \in 1..Len(new.items) : new.items[i].sku = sess[s].cart[i].sku
                    /\ new.total_price = SumPrices(sess[s].cart)
                    /\ sess'[s].cart = <<>>
       /\ \A s \in Sessions :
             (Len(sess[s].cart) > 1 /\ sess'[s].logged_in /\ sess'[s].cart = <<>>) =>
                Len(orders') = Len(orders) + 1]_vars

\* an order of two cart entries, created under the default shipping fee, has moved
\* on to delivered after the fee was changed, and a second order was created
\* under the changed fee
C16_Witness ==
    /\ Len(orders) = 2
    /\ orders[1].item_count = 2 /\ orders[1].total_price = 2 * 9900
    /\ orders[1].status = Delivered
    /\ orders[2].item_count = 1 /\ orders[2].total_price = 9900
    /\ settings.shipping_base = 12

\* the step of session s commits a publish
CommitsPublish(s) == run[s].kind = "publish" /\ run'[s].kind = "idle"

\* the rows a step appends to the SKU table
NewSkus == (Len(skus) + 1)..Len(skus')

\* C11: a step that commits a publish of K colours and M sizes appends exactly
\* K*M SKU rows, all of the new product, and their sku_code values are pairwise
\* distinct.
C11_PublishDistinctCodes ==
    [][\A s \in Sessions : CommitsPublish(s) =>
          /\ Len(skus') = Len(skus) + Len(run[s].form.colors) * Len(run[s].form.sizes)
          /\ \A i \in NewSkus : skus'[i].product_id = Len(products')
          /\ \A i, j \in NewSkus :
                skus'[i].sku_code = skus'[j].sku_code => i = j]_vars

\* C13: every SKU has a price of at least 0 and a stock of at least 0.
C13_PriceAndStockNonNegative ==
    \A k \in 1..Len(skus) : skus[k].price >= 0 /\ skus[k].stock >= 0

\* the step of session s commits an edit of a product, or a shipment
CommitsEdit(s) == run[s].kind = "edit" /\ run'[s].kind = "idle"
CommitsShip(s) == run[s].kind = "ship" /\ run'[s].kind = "idle"

\* C14: a save in flight is never refused: its commit is enabled whatever other
\* sessions have committed since it loaded its rows. The step that commits an
\* edit stores every cell the admin changed from the loaded value, whatever the
\* row holds by then, and the step that commits a shipment stores status shipped
\* and the tracking number entered: the later commit's values replace the
\* earlier commit's.
C14_LaterCommitWins ==
    [][\A s \in Sessions :
          /\ run[s].kind = "edit" => ENABLED EditCommit(s)
          /\ run[s].kind = "ship" => ENABLED ShipCommit(s)
          /\ CommitsEdit(s) =>
                \A k \in DOMAIN run[s].df_edit :
                   LET row == run[s].df_edit[k]
                       so == run[s].snap[k]
                   IN  /\ row.Price # so.Price => skus'[k].price = row.Price
                       /\ row.Stock # so.Stock => skus'[k].stock = row.Stock
                       /\ row.SKU # so.SKU => skus'[k].sku_code = row.SKU
          /\ CommitsShip(s) =>
                /\ orders'[run[s].order].status = Shipped
                /\ run[s].tn # "" => orders'[run[s].order].tracking_number = run[s].tn]_vars

\* a session that loaded the SKU at price 99 is about to save price 70 after the
\* other session's save of price 50 has committed, and the order, shipped by both
\* sessions, carries the second tracking number
C14_Witness ==
    /\ \E s \in Sessions :
          /\ run[s].kind = "edit"
          /\ run[s].snap[1].Price = 99 /\ run[s].df_edit[1].Price = 70
          /\ skus[1].price = 50
    /\ orders[1].status = Shipped /\ orders[1].tracking_number = "T2"

\* C15: a step that commits a publish appends the product and one SKU row per
\* row of the matrix whatever uploads failed; the main image and the image_path of
\* a row are empty exactly when no file was chosen for them or their upload
\* failed, and the rows carry the matrix's colour, size, price and stock.
C15_UploadFailureAbsorbed ==
    [][\A s \in Sessions : CommitsPublish(s) =>
          LET f == run[s].form
              n == Len(f.colors) * Len(f.sizes)
              new_p == products'[Len(products')]
          IN  /\ Len(products') = Len(products) + 1
              /\ new_p.name = f.p_name
              /\ new_p.main_image = "" <=> (~f.main_file \/ 0 \in run[s].fails)
              /\ Len(skus') = Len(skus) + n
              /\ \A k \in 1..n :
                    LET row == skus'[Len(skus) + k]
                    IN  /\ row.product_id = new_p.id
                        /\ row.color = MatrixColor(f.colors, f.sizes, k)
                        /\ row.size = MatrixSize(f.colors, f.sizes, k)
                        /\ row.price = f.prices[k] /\ row.stock = f.stocks[k]
                        /\ row.image_path = "" <=>
                              (row.color \notin f.color_imgs \/ k \in run[s].fails)]_vars

\* a product of two colours by two sizes was published whose main image upload
\* failed and, of the two rows of the colour with a file, the first upload
\* failed and the second went through
C15_Witness ==
    /\ Len(products) = 2 /\ Len(skus) = 5
    /\ products[2].main_image = ""
    /\ skus[2].color = skus[3].color
    /\ skus[2].image_path = "" /\ skus[3].image_path # ""
    /\ skus[4].image_path = ""

Min(a, b) == IF a <= b THEN a ELSE b

\* C12: every waybill drawn for an order shows the first min(n, 8) of the
\* order's n item lines, in order, line i at y = 350 + 40 * (i - 1), none below
\* y = 650; the remaining lines are not drawn, and a run of the orders tab draws
\* a waybill for every order.
C12_WaybillDrawsBoundedPrefix ==
    \A s \in Sessions :
       /\ Len(rendered[s]) \in {0, Len(orders)}
       /\ \A o \in 1..Len(rendered[s]) :
             LET lines == ItemLines(orders[o])
                 drawn == rendered[s][o].items
             IN  /\ Len(drawn) = Min(Len(lines), 8)
                 /\ \A i \in 1..Len(drawn) :
                       /\ drawn[i].text = lines[i]
                       /\ drawn[i].y = 350 + 40 * (i - 1)
                       /\ drawn[i].y <= 650

\* the waybill of a shipped order of more than 8 item lines was drawn: 8 lines,
\* the last at y = 630, and the tracking number
C12_Witness ==
    \E s \in Sessions :
       /\ Len(rendered[s]) = 1
       /\ Len(orders[1].items) > 8
       /\ Len(rendered[s][1].items) = 8
       /\ rendered[s][1].items[8].y = 630
       /\ rendered[s][1].track = "T1"

=============================================================================
